---- MODULE Spec2Model ----
(***************************************************************************)
(* A model of run_debiasing.py: the SWAG example reader, the feature       *)
(* encoder with its pair truncation, and the adversarial training and      *)
(* evaluation loops of main().                                             *)
(*                                                                         *)
(* The external collaborators (tokenizer, predictor, adversary, optimizers)*)
(* are modelled by what the program observes of them: the tokenizer maps a *)
(* text to a token list and a token to an id, a model forward returns a    *)
(* loss and logits chosen nondeterministically.                            *)
(***************************************************************************)
EXTENDS Integers, Sequences, FiniteSets, TLC

(* ------------------------------ bounds --------------------------------- *)
MaxCtxLen == 3
MaxStartLen == 1
MaxEndLen == 2
MaxSeqLen == 7
MaxRows == 2
MaxEpochs == 2
TrainBatchArg == 2
MaxEvalExamples == 3
EvalSeqLen == 10
MaxValRows == 3
MaxAccRows == 2

(* --------------------------- program constants -------------------------- *)
NumChoices == 4

VARIABLES
    max_seq_length,         \* args.max_seq_length
    example,                \* the SwagExample being encoded
    context_tokens,         \* tokenizer.tokenize(example.context_sentence)
    start_ending_tokens,    \* tokenizer.tokenize(example.start_ending)
    ending_index,           \* position of the loop over example.endings (0-based)
    context_tokens_choice,  \* the per-choice copy of context_tokens
    vp_token_,              \* tokenizer.tokenize(ending)
    ending_tokens,          \* start_ending_tokens + vp_token_, truncated in place
    choices_features,       \* the tuples appended so far for this example
    enc_pc,                 \* position inside convert_examples_to_features
    n_pops,                 \* single-token removals done by the running truncation
    features,               \* the InputFeatures built so far
    lines,                  \* the rows csv.reader yields for the input file
    is_training,            \* read_swag_examples' flag
    examples,               \* what read_swag_examples returned
    read_pc,                \* position in the read-then-encode pipeline
    pc,                     \* position in main()
    error,                  \* what aborted main(), "none" while it runs
    do_train,               \* args.do_train
    do_eval,                \* args.do_eval
    gradient_accumulation_steps,    \* args.gradient_accumulation_steps
    train_batch_size,       \* args.train_batch_size
    num_train_epochs,       \* int(args.num_train_epochs)
    train_file,             \* the rows of train.csv, None until it is read
    val_file,               \* the rows of val.csv, None until it is read
    n_train_examples,       \* len(train_features)
    epoch,                  \* epochs completed
    step,                   \* batches completed in the running epoch
    global_step,            \* global_step
    loss_pred,              \* loss_pred of the running step
    loss_adv,               \* loss_adv of the running step
    tr_loss_pred,           \* tr_loss_pred, None while unassigned
    tr_loss_adv,            \* tr_loss_adv, None while unassigned
    nb_tr_steps,            \* nb_tr_steps
    training_history,       \* training_history
    param_pred,             \* the predictor's parameters
    param_adv,              \* the adversary's parameters
    grad_pred,              \* the predictor's accumulated .grad
    grad_adv,               \* the adversary's accumulated .grad
    calls,                  \* how often each external operation has been called
    files,                  \* the files written under output_dir
    history_file,           \* the rows written to train_results.csv, None before
    output_dir_made,        \* os.makedirs(args.output_dir) has run
    n_eval_examples,        \* len(eval_features)
    eval_batch_size,        \* args.eval_batch_size
    nb_eval_steps,          \* nb_eval_steps
    nb_eval_examples,       \* nb_eval_examples
    eval_outputs,           \* what the two models return for each evaluation example
    eval_loss_pred,         \* eval_loss_pred, the running sum
    eval_accuracy_pred,     \* eval_accuracy_pred, the running sum
    eval_loss_adv,          \* eval_loss_adv, the running sum
    eval_accuracy_adv,      \* eval_accuracy_adv, the running sum
    eval_losses,            \* the (predictor, adversary) losses of the batches so far
    result,                 \* the dict written to eval_results.txt, None before
    all_vp_input_ids,       \* all_vp_input_ids of the evaluation set (line 623)
    all_vp_input_mask,      \* all_vp_input_mask (line 624)
    all_label,              \* all_label (line 622)
    batch_start,            \* examples the data loader has handed out before this batch
    batch_size,             \* the data loader's batch_size
    label_ids,              \* label_ids of the running batch
    vp_input_ids,           \* vp_input_ids of the running batch, gathered in place
    vp_input_mask,          \* vp_input_mask of the running batch, gathered in place
    logits_pred,            \* the predictor's logits for the running batch
    predicted_vps,          \* torch.argmax(logits_pred, dim=1)
    adv_inputs,             \* the (ids, mask) pairs the adversary was called with
    sel_pc,                 \* position in the evaluation loop's body
    out,                    \* accuracy's argument out, one row of scores per example
    labels,                 \* accuracy's argument labels
    outputs,                \* torch.argmax(out, dim=1)
    acc_result,             \* what accuracy returned, None before
    acc_pc,                 \* position inside accuracy
    sampler_order,          \* the order RandomSampler hands the training examples out in
    max_prob                \* max_prob of the running training batch

encVars == <<max_seq_length, example, context_tokens, start_ending_tokens,
             ending_index, context_tokens_choice, vp_token_, ending_tokens,
             choices_features, enc_pc, n_pops, features>>

readVars == <<lines, is_training, examples, read_pc>>

argVars == <<do_train, do_eval, gradient_accumulation_steps, num_train_epochs>>

trainVars == <<train_file, n_train_examples, epoch, step, global_step, loss_pred,
               loss_adv, tr_loss_pred, tr_loss_adv, nb_tr_steps, training_history>>

modelVars == <<param_pred, param_adv, grad_pred, grad_adv>>

evalVars == <<val_file, n_eval_examples, eval_batch_size, nb_eval_steps,
              nb_eval_examples, eval_outputs, eval_loss_pred, eval_accuracy_pred,
              eval_loss_adv, eval_accuracy_adv, eval_losses, result>>

mainVars == <<pc, error, argVars, train_batch_size, trainVars, modelVars, calls,
              files, history_file, output_dir_made, evalVars>>

selVars == <<all_vp_input_ids, all_vp_input_mask, all_label, batch_start,
             batch_size, label_ids, vp_input_ids, vp_input_mask, logits_pred,
             predicted_vps, adv_inputs, sel_pc>>

accVars == <<out, labels, outputs, acc_result, acc_pc>>

gatherVars == <<sampler_order, max_prob>>

vars == <<encVars, readVars, mainVars, selVars, accVars, gatherVars>>

\* What the steps of one component leave alone.
notEncVars == <<readVars, mainVars, selVars, accVars, gatherVars>>

notMainVars == <<encVars, readVars, selVars, accVars, gatherVars>>

notSelVars == <<encVars, readVars, mainVars, accVars, gatherVars>>

notAccVars == <<encVars, readVars, mainVars, selVars, gatherVars>>

\* What a training batch's gather leaves alone besides the tensors it shares
\* with the evaluation loop.
notGatherVars == <<encVars, readVars, mainVars, accVars>>

(* ------------------------------ helpers -------------------------------- *)
Front(s) == SubSeq(s, 1, Len(s) - 1)

IsPrefix(s, t) == Len(s) <= Len(t) /\ s = SubSeq(t, 1, Len(s))

Zeros(n) == [i \in 1..n |-> 0]

Ones(n) == [i \in 1..n |-> 1]

\* Python's None, and a value that is present.
None == <<>>

Some(v) == <<v>>

(* ----------------------------- tokenizer -------------------------------- *)
\* A text is [kind, n]: n word pieces of the given column of the row.
Text(kind, n) == [kind |-> kind, n |-> n]

TokBase(kind) ==
    CASE kind = "context" -> 10
      [] kind = "start" -> 20
      [] kind = "ending_0" -> 30
      [] kind = "ending_1" -> 40
      [] kind = "ending_2" -> 50
      [] kind = "ending_3" -> 60

\* tokenizer.tokenize: the word pieces of a text, in order.
Tokenize(text) == [i \in 1..text.n |-> TokBase(text.kind) + i]

CLS == 1
SEP == 2

\* tokenizer.convert_tokens_to_ids: the vocabulary index of each token.
ConvertTokensToIds(tokens) == [i \in 1..Len(tokens) |-> 100 + tokens[i]]

EndingKind(j) ==
    CASE j = 0 -> "ending_0" [] j = 1 -> "ending_1"
      [] j = 2 -> "ending_2" [] j = 3 -> "ending_3"

(* -------------------------- _truncate_seq_pair -------------------------- *)
\* The exit test written with < for <=.
TruncateBreakStrict(total_length, max_length) == total_length < max_length

\* line 249: the loop's exit test.
TruncateBreak(total_length, max_length) == total_length <= max_length

\* The comparison written with >= for >: a tie removes from the context.
PopsFromAOnTie(tokens_a, tokens_b) == Len(tokens_a) >= Len(tokens_b)

\* line 251: which list loses its last token.
PopsFromA(tokens_a, tokens_b) == Len(tokens_a) > Len(tokens_b)

\* lines 240-254 as a function of its arguments: the two lists as they are when
\* the call returns, or raised = TRUE when list.pop() meets an empty list
\* (IndexError).
RECURSIVE TruncateSeqPair(_, _, _)
TruncateSeqPair(tokens_a, tokens_b, max_length) ==
    IF TruncateBreak(Len(tokens_a) + Len(tokens_b), max_length)
    THEN [a |-> tokens_a, b |-> tokens_b, raised |-> FALSE]
    ELSE IF PopsFromA(tokens_a, tokens_b)
         THEN IF tokens_a = <<>>
              THEN [a |-> tokens_a, b |-> tokens_b, raised |-> TRUE]
              ELSE TruncateSeqPair(Front(tokens_a), tokens_b, max_length)
         ELSE IF tokens_b = <<>>
              THEN [a |-> tokens_a, b |-> tokens_b, raised |-> TRUE]
              ELSE TruncateSeqPair(tokens_a, Front(tokens_b), max_length)

(* ---------------------- convert_examples_to_features -------------------- *)
\* int(max_seq_length / 2), for the max_seq_length >= 0 that reach line 202.
HalfLen(msl) == msl \div 2

\* lines 197-200 and 202-204: right-pad with [0] * n ([] when n <= 0).
Pad(seq, n) == seq \o Zeros(n)

\* The masks built after the padding instead of before it.
BuildChoiceMaskAfterPad(ctx_choice, end_toks, vp_tok, msl) ==
    LET vp_tokens == <<CLS>> \o vp_tok \o <<SEP>>
        tokens == <<CLS>> \o ctx_choice \o <<SEP>> \o end_toks \o <<SEP>>
        segment_ids == Zeros(Len(ctx_choice) + 2) \o Ones(Len(end_toks) + 1)
        input_ids == ConvertTokensToIds(tokens)
        padded_ids == Pad(input_ids, msl - Len(input_ids))
        vp_ids == ConvertTokensToIds(vp_tokens)
        padded_vp_ids == Pad(vp_ids, HalfLen(msl) - Len(vp_ids))
    IN  [tokens |-> tokens,
         input_ids |-> padded_ids,
         input_mask |-> Ones(Len(padded_ids)),
         segment_ids |-> Pad(segment_ids, msl - Len(input_ids)),
         vp_tokens |-> vp_tokens,
         vp_input_ids |-> padded_vp_ids,
         vp_input_mask |-> Ones(Len(padded_vp_ids))]

\* lines 185-204: the tuple of one choice, from the truncated pair.
BuildChoice(ctx_choice, end_toks, vp_tok, msl) ==
    LET vp_tokens == <<CLS>> \o vp_tok \o <<SEP>>
        tokens == <<CLS>> \o ctx_choice \o <<SEP>> \o end_toks \o <<SEP>>
        segment_ids == Zeros(Len(ctx_choice) + 2) \o Ones(Len(end_toks) + 1)
        input_ids == ConvertTokensToIds(tokens)
        input_mask == Ones(Len(input_ids))
        vp_ids == ConvertTokensToIds(vp_tokens)
        vp_mask == Ones(Len(vp_ids))
    IN  [tokens |-> tokens,
         input_ids |-> Pad(input_ids, msl - Len(input_ids)),
         input_mask |-> Pad(input_mask, msl - Len(input_ids)),
         segment_ids |-> Pad(segment_ids, msl - Len(input_ids)),
         vp_tokens |-> vp_tokens,
         vp_input_ids |-> Pad(vp_ids, HalfLen(msl) - Len(vp_ids)),
         vp_input_mask |-> Pad(vp_mask, HalfLen(msl) - Len(vp_ids))]

\* lines 206-210: the five assertions.
AssertsHold(c, msl) ==
    /\ Len(c.input_ids) = msl
    /\ Len(c.input_mask) = msl
    /\ Len(c.segment_ids) = msl
    /\ Len(c.vp_input_ids) = HalfLen(msl)
    /\ Len(c.vp_input_mask) = HalfLen(msl)

\* lines 90-112: InputFeatures keeps five fields of each choice tuple.
InputFeatures(example_id, cf, label, protected_attr, endings) ==
    [example_id |-> example_id,
     choices_features |->
        [i \in 1..Len(cf) |->
            [input_ids |-> cf[i].input_ids,
             input_mask |-> cf[i].input_mask,
             segment_ids |-> cf[i].segment_ids,
             vp_input_ids |-> cf[i].vp_input_ids,
             vp_input_mask |-> cf[i].vp_input_mask]],
     label |-> label,
     protected_attr |-> protected_attr,
     endings |-> endings]

\* lines 44-66: SwagExample.
SwagExample(swag_id, context_sentence, start_ending, endings, label, protected_attr) ==
    [swag_id |-> swag_id,
     context_sentence |-> context_sentence,
     start_ending |-> start_ending,
     endings |-> endings,
     label |-> label,
     protected_attr |-> protected_attr]

\* The examples the encoder is run on: every combination of text lengths.
EncoderExamples ==
    { SwagExample(1, Text("context", c), Text("start", s),
                  [j \in 1..NumChoices |-> Text(EndingKind(j - 1), e[j])],
                  Some(0), Some(0)) :
        c \in 0..MaxCtxLen, s \in 0..MaxStartLen,
        e \in [1..NumChoices -> 0..MaxEndLen] }

\* The external operations main() calls, none called yet.
NoCalls ==
    [fwd_pred |-> 0, gather |-> 0, fwd_adv |-> 0, bwd_comb |-> 0, step_pred |-> 0,
     bwd_adv |-> 0, step_adv |-> 0, eval_fwd_pred |-> 0, eval_fwd_adv |-> 0]

\* main() as it is right after parse_args, before line 363.
StartOfMain ==
    /\ pc = "start"
    /\ error = "none"
    /\ train_file = None
    /\ val_file = None
    /\ n_train_examples = 0
    /\ epoch = 0
    /\ step = 0
    /\ global_step = 0
    /\ loss_pred = 0
    /\ loss_adv = 0
    /\ tr_loss_pred = None
    /\ tr_loss_adv = None
    /\ nb_tr_steps = 0
    /\ training_history = <<>>
    /\ param_pred = 0
    /\ param_adv = 0
    /\ grad_pred = 0
    /\ grad_adv = 0
    /\ calls = NoCalls
    /\ files = {}
    /\ history_file = None
    /\ output_dir_made = FALSE
    /\ n_eval_examples = 0
    /\ eval_batch_size = 1
    /\ nb_eval_steps = 0
    /\ nb_eval_examples = 0
    /\ eval_outputs = <<>>
    /\ eval_loss_pred = 0
    /\ eval_accuracy_pred = 0
    /\ eval_loss_adv = 0
    /\ eval_accuracy_adv = 0
    /\ eval_losses = <<>>
    /\ result = None

IdleMain ==
    /\ do_train = FALSE
    /\ do_eval = FALSE
    /\ gradient_accumulation_steps = 1
    /\ train_batch_size = 1
    /\ num_train_epochs = 0
    /\ StartOfMain

IdleSel ==
    /\ all_vp_input_ids = <<>>
    /\ all_vp_input_mask = <<>>
    /\ all_label = <<>>
    /\ batch_start = 0
    /\ batch_size = 1
    /\ label_ids = <<>>
    /\ vp_input_ids = <<>>
    /\ vp_input_mask = <<>>
    /\ logits_pred = <<>>
    /\ predicted_vps = <<>>
    /\ adv_inputs = <<>>
    /\ sel_pc = "idle"

IdleAcc ==
    /\ out = <<>>
    /\ labels = <<>>
    /\ outputs = <<>>
    /\ acc_result = None
    /\ acc_pc = "idle"

IdleGather ==
    /\ sampler_order = <<>>
    /\ max_prob = <<>>

IdleReader ==
    /\ lines = <<>>
    /\ is_training = TRUE
    /\ examples = <<>>
    /\ read_pc = "idle"

InitEncoder ==
    /\ max_seq_length \in 2..MaxSeqLen
    /\ example \in EncoderExamples
    /\ context_tokens = <<>>
    /\ start_ending_tokens = <<>>
    /\ ending_index = 0
    /\ context_tokens_choice = <<>>
    /\ vp_token_ = <<>>
    /\ ending_tokens = <<>>
    /\ choices_features = <<>>
    /\ enc_pc = "start"
    /\ n_pops = 0
    /\ features = <<>>
    /\ IdleReader
    /\ IdleMain
    /\ IdleSel
    /\ IdleAcc
    /\ IdleGather

\* lines 169-172.
TokenizeExample ==
    /\ enc_pc = "start"
    /\ context_tokens' = Tokenize(example.context_sentence)
    /\ start_ending_tokens' = Tokenize(example.start_ending)
    /\ choices_features' = <<>>
    /\ ending_index' = 0
    /\ enc_pc' = "choice"
    /\ UNCHANGED <<max_seq_length, example, context_tokens_choice, vp_token_,
                   ending_tokens, n_pops, features>>
    /\ UNCHANGED notEncVars

\* lines 173-183: the copy of the context, the ending span, the call.
BeginChoice ==
    /\ enc_pc = "choice"
    /\ ending_index < Len(example.endings)
    /\ context_tokens_choice' = context_tokens
    /\ vp_token_' = Tokenize(example.endings[ending_index + 1])
    /\ ending_tokens' = start_ending_tokens \o vp_token_'
    /\ n_pops' = 0
    /\ enc_pc' = "truncate"
    /\ UNCHANGED <<max_seq_length, example, context_tokens, start_ending_tokens,
                   ending_index, choices_features, features>>
    /\ UNCHANGED notEncVars

TruncTotal == Len(context_tokens_choice) + Len(ending_tokens)

\* lines 248-250: total_length <= max_length, break.
TruncateReturn ==
    /\ enc_pc = "truncate"
    /\ TruncateBreak(TruncTotal, max_seq_length - 3)
    /\ enc_pc' = "assemble"
    /\ UNCHANGED <<max_seq_length, example, context_tokens, start_ending_tokens,
                   ending_index, context_tokens_choice, vp_token_, ending_tokens,
                   choices_features, n_pops, features>>
    /\ UNCHANGED notEncVars

\* tokens_a.pop() when line 176 binds the context list itself instead of a
\* copy of it: the pop shortens context_tokens as well.
TruncatePopAAliased ==
    /\ enc_pc = "truncate"
    /\ ~TruncateBreak(TruncTotal, max_seq_length - 3)
    /\ PopsFromA(context_tokens_choice, ending_tokens)
    /\ context_tokens_choice # <<>>
    /\ context_tokens_choice' = Front(context_tokens_choice)
    /\ context_tokens' = Front(context_tokens_choice)
    /\ n_pops' = n_pops + 1
    /\ UNCHANGED <<max_seq_length, example, start_ending_tokens,
                   ending_index, vp_token_, ending_tokens, choices_features,
                   enc_pc, features>>
    /\ UNCHANGED notEncVars

\* lines 251-252: tokens_a.pop().
TruncatePopA ==
    /\ enc_pc = "truncate"
    /\ ~TruncateBreak(TruncTotal, max_seq_length - 3)
    /\ PopsFromA(context_tokens_choice, ending_tokens)
    /\ context_tokens_choice # <<>>
    /\ context_tokens_choice' = Front(context_tokens_choice)
    /\ n_pops' = n_pops + 1
    /\ UNCHANGED <<max_seq_length, example, context_tokens, start_ending_tokens,
                   ending_index, vp_token_, ending_tokens, choices_features,
                   enc_pc, features>>
    /\ UNCHANGED notEncVars

\* lines 253-254: tokens_b.pop().
TruncatePopB ==
    /\ enc_pc = "truncate"
    /\ ~TruncateBreak(TruncTotal, max_seq_length - 3)
    /\ ~PopsFromA(context_tokens_choice, ending_tokens)
    /\ ending_tokens # <<>>
    /\ ending_tokens' = Front(ending_tokens)
    /\ n_pops' = n_pops + 1
    /\ UNCHANGED <<max_seq_length, example, context_tokens, start_ending_tokens,
                   ending_index, context_tokens_choice, vp_token_, choices_features,
                   enc_pc, features>>
    /\ UNCHANGED notEncVars

\* lines 252 and 254: list.pop() on an empty list raises IndexError.
TruncateRaise ==
    /\ enc_pc = "truncate"
    /\ ~TruncateBreak(TruncTotal, max_seq_length - 3)
    /\ IF PopsFromA(context_tokens_choice, ending_tokens)
       THEN context_tokens_choice = <<>>
       ELSE ending_tokens = <<>>
    /\ enc_pc' = "IndexError"
    /\ UNCHANGED <<max_seq_length, example, context_tokens, start_ending_tokens,
                   ending_index, context_tokens_choice, vp_token_, ending_tokens,
                   choices_features, n_pops, features>>
    /\ UNCHANGED notEncVars

\* lines 185-211: assemble, pad, assert, append.
AssembleChoice ==
    /\ enc_pc = "assemble"
    /\ LET c == BuildChoice(context_tokens_choice, ending_tokens, vp_token_,
                            max_seq_length)
       IN  IF AssertsHold(c, max_seq_length)
           THEN /\ choices_features' = Append(choices_features, c)
                /\ ending_index' = ending_index + 1
                /\ enc_pc' = "choice"
           ELSE /\ enc_pc' = "AssertionError"
                /\ UNCHANGED <<choices_features, ending_index>>
    /\ UNCHANGED <<max_seq_length, example, context_tokens, start_ending_tokens,
                   context_tokens_choice, vp_token_, ending_tokens, n_pops, features>>
    /\ UNCHANGED notEncVars

\* lines 213-236: the example's InputFeatures is appended.
FinishExample ==
    /\ enc_pc = "choice"
    /\ ending_index = Len(example.endings)
    /\ features' = Append(features,
            InputFeatures(example.swag_id, choices_features, example.label,
                          example.protected_attr, example.endings))
    /\ enc_pc' = "done"
    /\ UNCHANGED <<max_seq_length, example, context_tokens, start_ending_tokens,
                   ending_index, context_tokens_choice, vp_token_, ending_tokens,
                   choices_features, n_pops>>
    /\ UNCHANGED notEncVars



NextEncoder ==
    \/ TokenizeExample
    \/ BeginChoice
    \/ TruncateReturn
    \/ TruncatePopA
    \/ TruncatePopB
    \/ TruncateRaise
    \/ AssembleChoice
    \/ FinishExample

SpecEncoder == InitEncoder /\ [][NextEncoder]_vars

(* --------------------------- read_swag_examples ------------------------- *)
\* Column k (0-based, as in the code) of a csv row.
Col(line, k) == line[k + 1]

\* The header row, with or without a column named label.
Header(has_label) ==
    <<"", "video-id", "fold-ind", "startphrase", "sent1", "sent2", "gold-source",
      "ending0", "ending1", "ending2", "ending3",
      IF has_label THEN "label" ELSE "gold", "gender">>

\* A data row: id at column 2, context at 4, shared prefix at 5, endings at
\* 7..10, label and protected attribute (as text) at 11 and 12.
DataRow(id, long_ending, label_text, attr_text) ==
    <<"", "video", id, "startphrase", Text("context", MaxCtxLen), Text("start", 1),
      "gold", Text("ending_0", 1), Text("ending_1", 0),
      Text("ending_2", IF long_ending THEN MaxEndLen ELSE 1), Text("ending_3", 1),
      label_text, attr_text>>

\* int(cell) for the cells the files hold.
ParseInt(cell) ==
    CASE cell = "0" -> 0 [] cell = "1" -> 1 [] cell = "2" -> 2 [] cell = "3" -> 3

\* The rows the files are built from: (long third ending, label cell,
\* protected-attribute cell).  Every label 0..3 and every attribute 0..2 occurs.
RowKinds ==
    { <<FALSE, "0", "0">>, <<FALSE, "1", "1">>, <<TRUE, "2", "2">>, <<FALSE, "3", "0">> }

\* The data rows of a file of n rows: row i carries id i.
RowSeqs(n) ==
    { [i \in 1..n |-> DataRow(i, r[i][1], r[i][2], r[i][3])] :
        r \in [1..n -> RowKinds] }

\* The input files: empty, or a header followed by 0..MaxRows data rows.
InputFiles ==
    {<<>>} \cup
    UNION { { <<Header(h)>> \o rows : rows \in RowSeqs(n) } :
              h \in BOOLEAN, n \in 0..MaxRows }

\* The test of line 124 made for every mode, not only for training.
LabelColumnMissingAnyMode(rows, training) ==
    rows # <<>> /\ \A k \in 1..Len(rows[1]) : rows[1][k] # "label"

\* line 124: is_training and 'label' not in lines[0].
LabelColumnMissing(rows, training) ==
    training /\ \A k \in 1..Len(rows[1]) : rows[1][k] # "label"

\* lines 130-141: one SwagExample from one row.
ExampleOfRow(line, training) ==
    SwagExample(Col(line, 2), Col(line, 4), Col(line, 5),
                <<Col(line, 7), Col(line, 8), Col(line, 9), Col(line, 10)>>,
                IF training THEN Some(ParseInt(Col(line, 11))) ELSE None,
                IF training THEN Some(ParseInt(Col(line, 12))) ELSE None)

\* lines 115-145: what the call raises, and the examples it returns.
ReadSwagExamples(rows, training) ==
    IF training /\ rows = <<>>
    THEN [raised |-> "IndexError", examples |-> <<>>]
    ELSE IF LabelColumnMissing(rows, training)
    THEN [raised |-> "ValueError", examples |-> <<>>]
    ELSE [raised |-> "none",
          examples |-> [i \in 1..(Len(rows) - 1) |-> ExampleOfRow(rows[i + 1], training)]]

\* lines 169-211 for one example: its choice tuples, or what was raised.
RECURSIVE EncodeChoices(_, _, _, _)
EncodeChoices(ex, msl, j, done) ==
    IF j > Len(ex.endings)
    THEN [raised |-> "none", choices |-> done]
    ELSE LET vp_tok == Tokenize(ex.endings[j])
             t == TruncateSeqPair(Tokenize(ex.context_sentence),
                                  Tokenize(ex.start_ending) \o vp_tok, msl - 3)
             c == BuildChoice(t.a, t.b, vp_tok, msl)
         IN  IF t.raised THEN [raised |-> "IndexError", choices |-> done]
             ELSE IF ~AssertsHold(c, msl)
             THEN [raised |-> "AssertionError", choices |-> done]
             ELSE EncodeChoices(ex, msl, j + 1, Append(done, c))

\* lines 147-238: the features of all examples, or what was raised.
RECURSIVE ConvertExamplesToFeatures(_, _, _, _)
ConvertExamplesToFeatures(exs, msl, i, done) ==
    IF i > Len(exs)
    THEN [raised |-> "none", features |-> done]
    ELSE LET e == EncodeChoices(exs[i], msl, 1, <<>>)
         IN  IF e.raised # "none"
             THEN [raised |-> e.raised, features |-> <<>>]
             ELSE ConvertExamplesToFeatures(exs, msl, i + 1,
                    Append(done,
                           InputFeatures(exs[i].swag_id, e.choices, exs[i].label,
                                         exs[i].protected_attr, exs[i].endings)))

IdleEncoder ==
    /\ example = <<>>
    /\ context_tokens = <<>>
    /\ start_ending_tokens = <<>>
    /\ ending_index = 0
    /\ context_tokens_choice = <<>>
    /\ vp_token_ = <<>>
    /\ ending_tokens = <<>>
    /\ choices_features = <<>>
    /\ enc_pc = "idle"
    /\ n_pops = 0

idleEncVars == <<example, context_tokens, start_ending_tokens, ending_index,
                 context_tokens_choice, vp_token_, ending_tokens,
                 choices_features, enc_pc, n_pops>>

InitReader ==
    /\ lines \in InputFiles
    /\ is_training \in BOOLEAN
    /\ max_seq_length \in {MaxSeqLen - 1, MaxSeqLen}
    /\ examples = <<>>
    /\ features = <<>>
    /\ read_pc = "start"
    /\ IdleEncoder
    /\ IdleMain
    /\ IdleSel
    /\ IdleAcc
    /\ IdleGather

\* lines 115-145: the call of read_swag_examples.
ReadExamples ==
    /\ read_pc = "start"
    /\ LET r == ReadSwagExamples(lines, is_training)
       IN  /\ examples' = r.examples
           /\ read_pc' = IF r.raised = "none" THEN "read" ELSE r.raised
    /\ UNCHANGED <<lines, is_training, max_seq_length, features, idleEncVars,
                   mainVars, selVars, accVars, gatherVars>>

\* lines 147-238: the call of convert_examples_to_features on what was read.
ConvertExamples ==
    /\ read_pc = "read"
    /\ LET r == ConvertExamplesToFeatures(examples, max_seq_length, 1, <<>>)
       IN  /\ features' = r.features
           /\ read_pc' = IF r.raised = "none" THEN "converted" ELSE r.raised
    /\ UNCHANGED <<lines, is_training, max_seq_length, examples, idleEncVars,
                   mainVars, selVars, accVars, gatherVars>>

NextReader ==
    \/ ReadExamples
    \/ ConvertExamples

SpecReader == InitReader /\ [][NextReader]_vars

(* ------------------------- argmax and accuracy -------------------------- *)
\* torch.argmax(t, dim=1): per row the (0-based) index of the first maximal entry.
ArgMaxDim1(t) ==
    [i \in 1..Len(t) |->
        (CHOOSE j \in 1..Len(t[i]) :
            /\ \A k \in 1..Len(t[i]) : t[i][j] >= t[i][k]
            /\ \A k \in 1..(j - 1) : t[i][k] < t[i][j]) - 1]

\* The quotient correct / rows, returned in place of the count.
AccuracyMean(o, l) ==
    IF Len(o) = 0
    THEN 0
    ELSE Cardinality({i \in 1..Len(o) : ArgMaxDim1(o)[i] = l[i]}) \div Len(o)

\* lines 256-258: torch.sum(torch.argmax(out, dim=1) == labels).
Accuracy(o, l) ==
    Cardinality({i \in 1..Len(o) : ArgMaxDim1(o)[i] = l[i]})

\* Choice c (0-based) has a maximal logit in row.
IsArgMax(row, c) ==
    /\ c \in 0..(Len(row) - 1)
    /\ \A k \in 1..Len(row) : row[c + 1] >= row[k]

(* --------------------------------- main --------------------------------- *)
Alpha == 1

\* The losses a forward pass of the predictor, of the adversary may return.
PredLosses == {2, 4}

AdvLosses == {6}

\* The gradient of a loss with respect to the parameters of the model that
\* computed it: autograd is linear in the scale of the loss.
GradOf(loss) == loss

\* train.csv: a header with or without a label column, 1..MaxRows rows.
TrainFiles ==
    { <<Header(h)>> \o [i \in 1..n |-> DataRow(i, FALSE, "1", "0")] :
        h \in BOOLEAN, n \in 1..MaxRows }

\* val.csv: a header with or without a label column, 0..MaxValRows rows.
ValFiles ==
    { <<Header(h)>> \o [i \in 1..n |-> DataRow(i, FALSE, "2", "1")] :
        h \in BOOLEAN, n \in 0..MaxValRows }

\* The logits the predictor may return for an evaluation example: the maximum
\* at the gold choice of the rows of ValFiles (2), or at another one.
EvalPredRows == <<<<0, 0, 1, 0>>, <<1, 0, 0, 0>>>>

\* The logits the adversary may return: the maximum at the protected
\* attribute of the rows of ValFiles (1), or at another one.
EvalAdvRows == <<<<0, 1, 0>>, <<0, 0, 1>>>>

\* In eval mode each model is a function of its input: the outputs for the n
\* examples of the split, for two pairs of models.
EvalOutputs(n) ==
    { [i \in 1..n |-> [pred |-> EvalPredRows[1 + (i % 2)],
                       adv |-> EvalAdvRows[1 + ((i + 1) % 2)]]],
      [i \in 1..n |-> [pred |-> EvalPredRows[1],
                       adv |-> EvalAdvRows[IF i = 1 THEN 1 ELSE 2]]] }

\* The mean losses a model may return for an evaluation batch.
EvalPredLosses == {1, 3}

EvalAdvLosses == {5}

\* Python's a / b on numbers, kept as the fraction <<a, b>>.
TrueDiv(a, b) == <<a, b>>

InitMain ==
    /\ do_train \in BOOLEAN
    /\ do_eval \in BOOLEAN
    /\ gradient_accumulation_steps \in 0..2
    /\ train_batch_size = TrainBatchArg
    /\ num_train_epochs \in 0..MaxEpochs
    /\ max_seq_length = MaxSeqLen
    /\ features = <<>>
    /\ StartOfMain
    /\ IdleEncoder
    /\ IdleReader
    /\ IdleSel
    /\ IdleAcc
    /\ IdleGather

\* line 363.
GradAccInvalid(k) == k < 1

\* lines 363-376: the two argument checks, and the per-step batch size.
CheckArgs ==
    /\ pc = "start"
    /\ IF GradAccInvalid(gradient_accumulation_steps)
       THEN /\ pc' = "error"
            /\ error' = "grad_acc"
            /\ UNCHANGED train_batch_size
       ELSE /\ train_batch_size' = train_batch_size \div gradient_accumulation_steps
            /\ IF ~do_train /\ ~do_eval
               THEN pc' = "error" /\ error' = "no_mode"
               ELSE pc' = "makedirs" /\ UNCHANGED error
    /\ UNCHANGED <<argVars, trainVars, modelVars, calls, files, history_file,
                   output_dir_made, evalVars, notMainVars>>

\* lines 380-383: the output directory and the tokenizer.
MakeOutputDir ==
    /\ pc = "makedirs"
    /\ output_dir_made' = TRUE
    /\ pc' = "read_train"
    /\ UNCHANGED <<error, argVars, train_batch_size, trainVars, modelVars, calls,
                   files, history_file, evalVars, notMainVars>>

\* train.csv read with is_training = False.
ReadTrainUnchecked ==
    /\ pc = "read_train"
    /\ IF do_train
       THEN \E f \in TrainFiles :
              LET r == ReadSwagExamples(f, FALSE)
              IN  /\ train_file' = Some(f)
                  /\ n_train_examples' = Len(r.examples)
                  /\ pc' = "prepare"
                  /\ UNCHANGED error
       ELSE /\ pc' = "prepare"
            /\ UNCHANGED <<train_file, n_train_examples, error>>
    /\ UNCHANGED <<argVars, train_batch_size, epoch, step, global_step, loss_pred,
                   loss_adv, tr_loss_pred, tr_loss_adv, nb_tr_steps,
                   training_history, modelVars, calls, files, history_file,
                   output_dir_made, evalVars, notMainVars>>

\* lines 385-392: train.csv is read when training was asked for.
ReadTrain ==
    /\ pc = "read_train"
    /\ IF do_train
       THEN \E f \in TrainFiles :
              LET r == ReadSwagExamples(f, TRUE)
              IN  /\ train_file' = Some(f)
                  /\ n_train_examples' = Len(r.examples)
                  /\ IF r.raised = "none"
                     THEN pc' = "prepare" /\ UNCHANGED error
                     ELSE pc' = "error" /\ error' = "train_label"
       ELSE /\ pc' = "prepare"
            /\ UNCHANGED <<train_file, n_train_examples, error>>
    /\ UNCHANGED <<argVars, train_batch_size, epoch, step, global_step, loss_pred,
                   loss_adv, tr_loss_pred, tr_loss_adv, nb_tr_steps,
                   training_history, modelVars, calls, files, history_file,
                   output_dir_made, evalVars, notMainVars>>

\* lines 395-470: the pretrained models, the optimizers, global_step = 0.
PrepareModels ==
    /\ pc = "prepare"
    /\ param_pred' = 0
    /\ param_adv' = 0
    /\ grad_pred' = 0
    /\ grad_adv' = 0
    /\ global_step' = 0
    /\ pc' = IF do_train THEN "encode_train" ELSE "load"
    /\ UNCHANGED <<error, argVars, train_batch_size, train_file, n_train_examples,
                   epoch, step, loss_pred, loss_adv, tr_loss_pred, tr_loss_adv,
                   nb_tr_steps, training_history, calls, files, history_file,
                   output_dir_made, evalVars, notMainVars>>

\* lines 471-494: the training features, the data loader, training_history = [].
EncodeTrain ==
    /\ pc = "encode_train"
    /\ LET r == ConvertExamplesToFeatures(
                    ReadSwagExamples(train_file[1], TRUE).examples,
                    max_seq_length, 1, <<>>)
       IN  IF r.raised = "none"
           THEN /\ n_train_examples' = Len(r.features)
                /\ training_history' = <<>>
                /\ pc' = "epoch"
                /\ UNCHANGED error
           ELSE /\ pc' = "error"
                /\ error' = r.raised
                /\ UNCHANGED <<n_train_examples, training_history>>
    /\ UNCHANGED <<argVars, train_batch_size, train_file, epoch, step, global_step,
                   loss_pred, loss_adv, tr_loss_pred, tr_loss_adv, nb_tr_steps,
                   modelVars, calls, files, history_file, output_dir_made,
                   evalVars, notMainVars>>

\* len(train_dataloader): the batches of one epoch.
NumBatches == (n_train_examples + train_batch_size - 1) \div train_batch_size

\* The epoch loop's head with training_history = [] moved inside the loop.
BeginEpochResetsHistory ==
    /\ pc = "epoch"
    /\ epoch < num_train_epochs
    /\ tr_loss_pred' = Some(0)
    /\ tr_loss_adv' = Some(0)
    /\ nb_tr_steps' = 0
    /\ step' = 0
    /\ training_history' = <<>>
    /\ pc' = "batch"
    /\ UNCHANGED <<error, argVars, train_batch_size, train_file, n_train_examples,
                   epoch, global_step, loss_pred, loss_adv,
                   modelVars, calls, files, history_file, output_dir_made,
                   evalVars, notMainVars>>

\* lines 495-497: the head of the epoch loop.
BeginEpoch ==
    /\ pc = "epoch"
    /\ epoch < num_train_epochs
    /\ tr_loss_pred' = Some(0)
    /\ tr_loss_adv' = Some(0)
    /\ nb_tr_steps' = 0
    /\ step' = 0
    /\ pc' = "batch"
    /\ UNCHANGED <<error, argVars, train_batch_size, train_file, n_train_examples,
                   epoch, global_step, loss_pred, loss_adv, training_history,
                   modelVars, calls, files, history_file, output_dir_made,
                   evalVars, notMainVars>>

\* lines 498-501: the next batch, the predictor's forward pass.
ForwardPredictor ==
    /\ pc = "batch"
    /\ step < NumBatches
    /\ \E l \in PredLosses : loss_pred' = l
    /\ calls' = [calls EXCEPT !.fwd_pred = @ + 1]
    /\ pc' = "gather"
    /\ UNCHANGED <<error, argVars, train_batch_size, train_file, n_train_examples,
                   epoch, step, global_step, loss_adv, tr_loss_pred, tr_loss_adv,
                   nb_tr_steps, training_history, modelVars, files, history_file,
                   output_dir_made, evalVars, notMainVars>>

\* line 498: the data loader is exhausted, the epoch is over.
EndEpoch ==
    /\ pc = "batch"
    /\ step = NumBatches
    /\ epoch' = epoch + 1
    /\ pc' = "epoch"
    /\ UNCHANGED <<error, argVars, train_batch_size, train_file, n_train_examples,
                   step, global_step, loss_pred, loss_adv, tr_loss_pred,
                   tr_loss_adv, nb_tr_steps, training_history, modelVars, calls,
                   files, history_file, output_dir_made, evalVars, notMainVars>>

\* lines 502-511: the VP rows of the predicted choice, with the confidence.
Gather ==
    /\ pc = "gather"
    /\ calls' = [calls EXCEPT !.gather = @ + 1]
    /\ pc' = "fwd_adv"
    /\ UNCHANGED <<error, argVars, train_batch_size, trainVars, modelVars, files,
                   history_file, output_dir_made, evalVars, notMainVars>>

\* lines 512-514: the adversary's forward pass.
ForwardAdversary ==
    /\ pc = "fwd_adv"
    /\ \E l \in AdvLosses : loss_adv' = l
    /\ calls' = [calls EXCEPT !.fwd_adv = @ + 1]
    /\ pc' = "record"
    /\ UNCHANGED <<error, argVars, train_batch_size, train_file, n_train_examples,
                   epoch, step, global_step, loss_pred, tr_loss_pred, tr_loss_adv,
                   nb_tr_steps, training_history, modelVars, files, history_file,
                   output_dir_made, evalVars, notMainVars>>

\* lines 523-525: the losses divided by gradient_accumulation_steps when > 1.
Scaled(loss) ==
    IF gradient_accumulation_steps > 1
    THEN loss \div gradient_accumulation_steps
    ELSE loss

\* lines 515-531: the scaled losses are summed and appended to the history.
RecordLosses ==
    /\ pc = "record"
    /\ loss_pred' = Scaled(loss_pred)
    /\ loss_adv' = Scaled(loss_adv)
    /\ tr_loss_pred' = Some(tr_loss_pred[1] + loss_pred')
    /\ tr_loss_adv' = Some(tr_loss_adv[1] + loss_adv')
    /\ nb_tr_steps' = nb_tr_steps + 1
    /\ training_history' = Append(training_history, <<loss_pred', loss_adv'>>)
    /\ pc' = "bwd_comb"
    /\ UNCHANGED <<error, argVars, train_batch_size, train_file, n_train_examples,
                   epoch, step, global_step, modelVars, calls, files, history_file,
                   output_dir_made, evalVars, notMainVars>>

\* lines 532-536: loss = loss_pred - alpha * loss_adv, loss.backward().
BackwardCombined ==
    /\ pc = "bwd_comb"
    /\ grad_pred' = grad_pred + GradOf(loss_pred)
    /\ grad_adv' = grad_adv - Alpha * GradOf(loss_adv)
    /\ calls' = [calls EXCEPT !.bwd_comb = @ + 1]
    /\ pc' = "step_pred"
    /\ UNCHANGED <<error, argVars, train_batch_size, trainVars, param_pred,
                   param_adv, files, history_file, output_dir_made, evalVars,
                   notMainVars>>

\* The update made only every gradient_accumulation_steps batches (the test
\* that line 537 holds as a comment).
StepPredictorAccumulating ==
    /\ pc = "step_pred"
    /\ IF (step + 1) % gradient_accumulation_steps = 0
       THEN /\ param_pred' = param_pred - grad_pred
            /\ grad_pred' = 0
            /\ grad_adv' = 0
            /\ calls' = [calls EXCEPT !.step_pred = @ + 1]
       ELSE UNCHANGED <<param_pred, grad_pred, grad_adv, calls>>
    /\ pc' = "bwd_adv"
    /\ UNCHANGED <<error, argVars, train_batch_size, trainVars, param_adv, files,
                   history_file, output_dir_made, evalVars, notMainVars>>

\* The predictor's update without line 548: the adversary's gradients of the
\* combined loss are left in place.
StepPredictorKeepsAdvGrad ==
    /\ pc = "step_pred"
    /\ param_pred' = param_pred - grad_pred
    /\ grad_pred' = 0
    /\ calls' = [calls EXCEPT !.step_pred = @ + 1]
    /\ pc' = "bwd_adv"
    /\ UNCHANGED <<error, argVars, train_batch_size, trainVars, param_adv, grad_adv,
                   files, history_file, output_dir_made, evalVars, notMainVars>>

\* lines 546-548: optimizer_pred.step(), then both optimizers' zero_grad().
StepPredictor ==
    /\ pc = "step_pred"
    /\ param_pred' = param_pred - grad_pred
    /\ grad_pred' = 0
    /\ grad_adv' = 0
    /\ calls' = [calls EXCEPT !.step_pred = @ + 1]
    /\ pc' = "bwd_adv"
    /\ UNCHANGED <<error, argVars, train_batch_size, trainVars, param_adv, files,
                   history_file, output_dir_made, evalVars, notMainVars>>

\* The second backward pass run on the combined loss again instead of loss_adv.
BackwardAdversaryCombined ==
    /\ pc = "bwd_adv"
    /\ grad_pred' = grad_pred + GradOf(loss_pred)
    /\ grad_adv' = grad_adv - Alpha * GradOf(loss_adv)
    /\ calls' = [calls EXCEPT !.bwd_adv = @ + 1]
    /\ pc' = "step_adv"
    /\ UNCHANGED <<error, argVars, train_batch_size, trainVars, param_pred,
                   param_adv, files, history_file, output_dir_made,
                   evalVars, notMainVars>>

\* lines 550-553: loss_adv.backward().
BackwardAdversary ==
    /\ pc = "bwd_adv"
    /\ grad_adv' = grad_adv + GradOf(loss_adv)
    /\ calls' = [calls EXCEPT !.bwd_adv = @ + 1]
    /\ pc' = "step_adv"
    /\ UNCHANGED <<error, argVars, train_batch_size, trainVars, param_pred,
                   param_adv, grad_pred, files, history_file, output_dir_made,
                   evalVars, notMainVars>>

\* lines 554-556: optimizer_adv.step(), zero_grad(), global_step += 1.
StepAdversary ==
    /\ pc = "step_adv"
    /\ param_adv' = param_adv - grad_adv
    /\ grad_adv' = 0
    /\ calls' = [calls EXCEPT !.step_adv = @ + 1]
    /\ global_step' = global_step + 1
    /\ step' = step + 1
    /\ pc' = "batch"
    /\ UNCHANGED <<error, argVars, train_batch_size, train_file, n_train_examples,
                   epoch, loss_pred, loss_adv, tr_loss_pred, tr_loss_adv,
                   nb_tr_steps, training_history, param_pred, grad_pred, files,
                   history_file, output_dir_made, evalVars, notMainVars>>

\* lines 557-561: after the last epoch the history goes to train_results.csv.
WriteHistory ==
    /\ pc = "epoch"
    /\ epoch >= num_train_epochs
    /\ history_file' = Some(training_history)
    /\ files' = files \cup {"train_results.csv"}
    /\ pc' = "save"
    /\ UNCHANGED <<error, argVars, train_batch_size, trainVars, modelVars, calls,
                   output_dir_made, evalVars, notMainVars>>

CheckpointFiles ==
    {"predictor_weights.pt", "predictor_config.json",
     "adversary_weights.pt", "adversary_config.json"}

\* lines 562-588: both models are saved and loaded back.
SaveModels ==
    /\ pc = "save"
    /\ files' = files \cup CheckpointFiles
    /\ pc' = "eval_gate"
    /\ UNCHANGED <<error, argVars, train_batch_size, trainVars, modelVars, calls,
                   history_file, output_dir_made, evalVars, notMainVars>>

\* lines 592-605: without training, both models are loaded from output_dir,
\* which holds the checkpoints of an earlier run or does not.
LoadModels ==
    /\ pc = "load"
    /\ \E present \in BOOLEAN :
          IF present
          THEN pc' = "eval_gate" /\ UNCHANGED error
          ELSE pc' = "error" /\ error' = "FileNotFoundError"
    /\ UNCHANGED <<argVars, train_batch_size, trainVars, modelVars, calls, files,
                   history_file, output_dir_made, evalVars, notMainVars>>

\* lines 612-635: val.csv is read (is_training = True) and encoded, the sums
\* start at 0.
ReadVal ==
    /\ pc = "eval_gate"
    /\ do_eval
    /\ \E f \in ValFiles, b \in 1..2 :
          LET r == ReadSwagExamples(f, TRUE)
              c == ConvertExamplesToFeatures(r.examples, max_seq_length, 1, <<>>)
          IN  /\ val_file' = Some(f)
              /\ eval_batch_size' = b
              /\ nb_eval_steps' = 0
              /\ nb_eval_examples' = 0
              /\ eval_loss_pred' = 0
              /\ eval_accuracy_pred' = 0
              /\ eval_loss_adv' = 0
              /\ eval_accuracy_adv' = 0
              /\ eval_losses' = <<>>
              /\ IF r.raised # "none"
                 THEN /\ pc' = "error"
                      /\ error' = "val_label"
                      /\ UNCHANGED <<n_eval_examples, eval_outputs>>
                 ELSE IF c.raised # "none"
                 THEN /\ pc' = "error"
                      /\ error' = c.raised
                      /\ UNCHANGED <<n_eval_examples, eval_outputs>>
                 ELSE /\ pc' = "eval_batch"
                      /\ n_eval_examples' = Len(c.features)
                      /\ eval_outputs' \in EvalOutputs(Len(c.features))
                      /\ UNCHANGED error
    /\ UNCHANGED <<argVars, train_batch_size, trainVars, modelVars, calls, files,
                   history_file, output_dir_made, result, notMainVars>>

\* line 612: no evaluation was asked for.
Finish ==
    /\ pc = "eval_gate"
    /\ ~do_eval
    /\ pc' = "done"
    /\ UNCHANGED <<error, argVars, train_batch_size, trainVars, modelVars, calls,
                   files, history_file, output_dir_made, evalVars, notMainVars>>

\* all_label and all_protected_attr of the evaluation split (lines 622, 625).
EvalLabels(field) ==
    LET exs == ReadSwagExamples(val_file[1], TRUE).examples
    IN  [i \in 1..Len(exs) |-> exs[i][field][1]]

\* lines 636-667: one evaluation batch through both models, added to the sums.
EvalBatch ==
    /\ pc = "eval_batch"
    /\ nb_eval_examples < n_eval_examples
    /\ LET left == n_eval_examples - nb_eval_examples
           size == IF left < eval_batch_size THEN left ELSE eval_batch_size
           first == nb_eval_examples + 1
           last == nb_eval_examples + size
           logits_p == [i \in 1..size |-> eval_outputs[nb_eval_examples + i].pred]
           logits_a == [i \in 1..size |-> eval_outputs[nb_eval_examples + i].adv]
           label_b == SubSeq(EvalLabels("label"), first, last)
           attr_b == SubSeq(EvalLabels("protected_attr"), first, last)
       IN  /\ \E lp \in EvalPredLosses, la \in EvalAdvLosses :
                 /\ eval_loss_pred' = eval_loss_pred + lp
                 /\ eval_loss_adv' = eval_loss_adv + la
                 /\ eval_losses' = Append(eval_losses, <<lp, la>>)
           /\ eval_accuracy_pred' = eval_accuracy_pred + Accuracy(logits_p, label_b)
           /\ eval_accuracy_adv' = eval_accuracy_adv + Accuracy(logits_a, attr_b)
           /\ nb_eval_examples' = nb_eval_examples + size
    /\ nb_eval_steps' = nb_eval_steps + 1
    /\ calls' = [calls EXCEPT !.eval_fwd_pred = @ + 1, !.eval_fwd_adv = @ + 1]
    /\ UNCHANGED <<pc, error, argVars, train_batch_size, trainVars, modelVars,
                   files, history_file, output_dir_made, val_file, n_eval_examples,
                   eval_batch_size, eval_outputs, result, notMainVars>>

\* lines 669-693: the averages and eval_results.txt.
WriteEvalResults ==
    /\ pc = "eval_batch"
    /\ nb_eval_examples = n_eval_examples
    /\ IF nb_eval_steps = 0
       THEN pc' = "error" /\ error' = "ZeroDivisionError" /\ UNCHANGED <<files, result>>
       ELSE IF do_train /\ tr_loss_pred = None
       THEN pc' = "error" /\ error' = "NameError" /\ UNCHANGED <<files, result>>
       ELSE /\ pc' = "done"
            /\ files' = files \cup {"eval_results.txt"}
            /\ result' =
                 LET eval_part ==
                        [eval_loss_pred |-> TrueDiv(eval_loss_pred, nb_eval_steps),
                         eval_accuracy_pred |->
                            TrueDiv(eval_accuracy_pred, nb_eval_examples),
                         eval_loss_adv |-> TrueDiv(eval_loss_adv, nb_eval_steps),
                         eval_accuracy_adv |->
                            TrueDiv(eval_accuracy_adv, nb_eval_examples)]
                 IN  IF do_train
                     THEN Some([eval |-> eval_part,
                                train |-> Some([global_step |-> global_step,
                                                loss_pred |-> TrueDiv(tr_loss_pred[1],
                                                                      nb_tr_steps),
                                                loss_adv |-> TrueDiv(tr_loss_adv[1],
                                                                     nb_tr_steps)])])
                     ELSE Some([eval |-> eval_part, train |-> None])
            /\ UNCHANGED error
    /\ UNCHANGED <<argVars, train_batch_size, trainVars, modelVars, calls,
                   history_file, output_dir_made, val_file, n_eval_examples,
                   eval_batch_size, nb_eval_steps, nb_eval_examples, eval_outputs,
                   eval_loss_pred, eval_accuracy_pred, eval_loss_adv,
                   eval_accuracy_adv, eval_losses, notMainVars>>

Init == InitMain

Next ==
    \/ CheckArgs
    \/ MakeOutputDir
    \/ ReadTrain
    \/ PrepareModels
    \/ EncodeTrain
    \/ BeginEpoch
    \/ ForwardPredictor
    \/ EndEpoch
    \/ Gather
    \/ ForwardAdversary
    \/ RecordLosses
    \/ BackwardCombined
    \/ StepPredictor
    \/ BackwardAdversary
    \/ StepAdversary
    \/ WriteHistory
    \/ SaveModels
    \/ LoadModels
    \/ ReadVal
    \/ Finish
    \/ EvalBatch
    \/ WriteEvalResults

Spec == Init /\ [][Next]_vars

(* ------------------- the evaluation loop, tensor by tensor ------------- *)
\* lines 260-267: select_field.
SelectField(feats, field) ==
    [i \in 1..Len(feats) |->
        [c \in 1..Len(feats[i].choices_features) |->
            feats[i].choices_features[c][field]]]

\* The index built from the gold labels instead of the predictor's logits.
PredictedVpsFromLabels(logits, gold) == gold

\* line 647: predicted_vps = torch.argmax(logits_pred, dim=1).
PredictedVps(logits, gold) == ArgMaxDim1(logits)

\* lines 648: t.view(-1, 1).repeat(1, n).view([-1, 1, n]) of a vector t.
ViewRepeatView(t, n) == [i \in 1..Len(t) |-> <<[k \in 1..n |-> t[i]]>>]

\* torch.gather(input, dim=1, index): out[i][j][k] = input[i][index[i][j][k]][k].
GatherDim1(input, index) ==
    [i \in 1..Len(index) |->
        [j \in 1..Len(index[i]) |->
            [k \in 1..Len(index[i][j]) |-> input[i][index[i][j][k] + 1][k]]]]

RECURSIVE Flatten(_)
Flatten(rows) == IF rows = <<>> THEN <<>> ELSE Head(rows) \o Flatten(Tail(rows))

\* t.view([t.size(0), -1]) of a 3-dimensional tensor.
ViewRows(t) == [i \in 1..Len(t) |-> Flatten(t[i])]

\* The evaluation split: example i has endings of 0, 1, 2 and 3 tokens, rotated
\* by i, so that the four VP rows of an example differ in ids and in mask.
EvalExamples(n) ==
    [i \in 1..n |->
        SwagExample(i, Text("context", MaxCtxLen), Text("start", 1),
                    [j \in 1..NumChoices |->
                        Text(EndingKind(j - 1), (i + j) % NumChoices)],
                    Some(0), Some(0))]

EvalFeatures(n) ==
    ConvertExamplesToFeatures(EvalExamples(n), EvalSeqLen, 1, <<>>).features

Logits == 0..1

InitEval ==
    /\ \E n \in 1..MaxEvalExamples :
          /\ all_vp_input_ids = SelectField(EvalFeatures(n), "vp_input_ids")
          /\ all_vp_input_mask = SelectField(EvalFeatures(n), "vp_input_mask")
          /\ all_label \in [1..n -> {0, 3}]
    /\ batch_size \in 1..2
    /\ batch_start = 0
    /\ label_ids = <<>>
    /\ vp_input_ids = <<>>
    /\ vp_input_mask = <<>>
    /\ logits_pred = <<>>
    /\ predicted_vps = <<>>
    /\ adv_inputs = <<>>
    /\ sel_pc = "load"
    /\ max_seq_length = EvalSeqLen
    /\ features = <<>>
    /\ IdleEncoder
    /\ IdleReader
    /\ IdleMain
    /\ IdleAcc
    /\ IdleGather

\* lines 636-643: the sequential data loader hands out the next batch.
EvalLoadBatch ==
    /\ sel_pc = "load"
    /\ batch_start < Len(all_label)
    /\ LET left == Len(all_label) - batch_start
           size == IF left < batch_size THEN left ELSE batch_size
       IN  /\ label_ids' = SubSeq(all_label, batch_start + 1, batch_start + size)
           /\ vp_input_ids' =
                SubSeq(all_vp_input_ids, batch_start + 1, batch_start + size)
           /\ vp_input_mask' =
                SubSeq(all_vp_input_mask, batch_start + 1, batch_start + size)
    /\ sel_pc' = "predict"
    /\ UNCHANGED <<all_vp_input_ids, all_vp_input_mask, all_label, batch_start,
                   batch_size, logits_pred, predicted_vps, adv_inputs, notSelVars>>

\* lines 645-647: the predictor's logits and their argmax.
EvalPredict ==
    /\ sel_pc = "predict"
    /\ \E l \in [1..Len(label_ids) -> [1..NumChoices -> Logits]] :
          /\ logits_pred' = l
          /\ predicted_vps' = PredictedVps(l, label_ids)
    /\ sel_pc' = "gather"
    /\ UNCHANGED <<all_vp_input_ids, all_vp_input_mask, all_label, batch_start,
                   batch_size, label_ids, vp_input_ids, vp_input_mask, adv_inputs,
                   notSelVars>>

\* lines 648-652: the VP id row and the VP mask row of the predicted choice.
EvalGather ==
    /\ sel_pc = "gather"
    /\ LET n == Len(vp_input_ids[1][1])
           index == ViewRepeatView(predicted_vps, n)
       IN  /\ vp_input_ids' = ViewRows(GatherDim1(vp_input_ids, index))
           /\ vp_input_mask' = ViewRows(GatherDim1(vp_input_mask, index))
    /\ sel_pc' = "adversary"
    /\ UNCHANGED <<all_vp_input_ids, all_vp_input_mask, all_label, batch_start,
                   batch_size, label_ids, logits_pred, predicted_vps, adv_inputs,
                   notSelVars>>

\* lines 653-667: the adversary is called on the gathered rows; the batch is done.
EvalAdversary ==
    /\ sel_pc = "adversary"
    /\ adv_inputs' = [i \in 1..Len(vp_input_ids) |->
                        [ids |-> vp_input_ids[i], mask |-> vp_input_mask[i]]]
    /\ batch_start' = batch_start + Len(label_ids)
    /\ sel_pc' = "load"
    /\ UNCHANGED <<all_vp_input_ids, all_vp_input_mask, all_label, batch_size,
                   label_ids, vp_input_ids, vp_input_mask, logits_pred,
                   predicted_vps, notSelVars>>

NextEval ==
    \/ EvalLoadBatch
    \/ EvalPredict
    \/ EvalGather
    \/ EvalAdversary

SpecEval == InitEval /\ [][NextEval]_vars

(* ------------------- the gather of a training batch -------------------- *)
\* The rows of logits the predictor may return for one training example, in
\* units of ln 2 (a logit of v stands for v * ln 2, so that exp(logit) = 2^v):
\* the maximum first, last or in the middle, twice, and of different heights.
TrainLogitRows ==
    { <<0, 0, 0, 0>>, <<0, 2, 1, 0>>, <<1, 0, 0, 1>>, <<0, 0, 0, 3>> }

\* The orders RandomSampler may hand n examples out in.
SamplerOrders(n) ==
    { o \in [1..n -> 1..n] : \A i, j \in 1..n : i # j => o[i] # o[j] }

\* The values of torch.max(t, dim=1): per row its maximal entry.
MaxDim1(t) ==
    [i \in 1..Len(t) |->
        CHOOSE v \in {t[i][k] : k \in 1..Len(t[i])} :
            \A k \in 1..Len(t[i]) : v >= t[i][k]]

RECURSIVE Pow2(_)
Pow2(v) == IF v = 0 THEN 1 ELSE 2 * Pow2(v - 1)

RECURSIVE SumPow2(_)
SumPow2(t) == IF t = <<>> THEN 0 ELSE Pow2(Head(t)) + SumPow2(Tail(t))

\* line 503: (100 * softmax(t)).long().view([-1, 1]) of a vector t; softmax of
\* a vector runs over its only dimension, .long() drops the fraction.
Softmax100Long(t) ==
    [i \in 1..Len(t) |-> <<(100 * Pow2(t[i])) \div SumPow2(t)>>]

\* The two tensors joined the other way round.
CatDim1Swapped(a, b) == [i \in 1..Len(a) |-> b[i] \o a[i]]

\* lines 507 and 510: torch.cat((a, b), dim=1) of two 2-dimensional tensors.
CatDim1(a, b) == [i \in 1..Len(a) |-> a[i] \o b[i]]

InitTrainGather ==
    /\ \E n \in 1..MaxEvalExamples :
          /\ all_vp_input_ids = SelectField(EvalFeatures(n), "vp_input_ids")
          /\ all_vp_input_mask = SelectField(EvalFeatures(n), "vp_input_mask")
          /\ all_label = [i \in 1..n |-> 0]
          /\ sampler_order \in SamplerOrders(n)
    /\ batch_size \in 1..2
    /\ batch_start = 0
    /\ label_ids = <<>>
    /\ vp_input_ids = <<>>
    /\ vp_input_mask = <<>>
    /\ logits_pred = <<>>
    /\ predicted_vps = <<>>
    /\ max_prob = <<>>
    /\ adv_inputs = <<>>
    /\ sel_pc = "train_load"
    /\ max_seq_length = EvalSeqLen
    /\ features = <<>>
    /\ IdleEncoder
    /\ IdleReader
    /\ IdleMain
    /\ IdleAcc

\* lines 498-500: the data loader hands out the next batch of the epoch, in
\* the sampler's order.
TrainLoadBatch ==
    /\ sel_pc = "train_load"
    /\ batch_start < Len(sampler_order)
    /\ LET left == Len(sampler_order) - batch_start
           size == IF left < batch_size THEN left ELSE batch_size
           idx == SubSeq(sampler_order, batch_start + 1, batch_start + size)
       IN  /\ label_ids' = [i \in 1..size |-> all_label[idx[i]]]
           /\ vp_input_ids' = [i \in 1..size |-> all_vp_input_ids[idx[i]]]
           /\ vp_input_mask' = [i \in 1..size |-> all_vp_input_mask[idx[i]]]
    /\ sel_pc' = "train_predict"
    /\ UNCHANGED <<all_vp_input_ids, all_vp_input_mask, all_label, batch_start,
                   batch_size, logits_pred, predicted_vps, adv_inputs,
                   gatherVars, notGatherVars>>

\* lines 501-502: the predictor's logits, torch.max(logits, dim=1).
TrainPredict ==
    /\ sel_pc = "train_predict"
    /\ \E l \in [1..Len(label_ids) -> TrainLogitRows] :
          /\ logits_pred' = l
          /\ max_prob' = MaxDim1(l)
          /\ predicted_vps' = ArgMaxDim1(l)
    /\ sel_pc' = "train_confidence"
    /\ UNCHANGED <<all_vp_input_ids, all_vp_input_mask, all_label, batch_start,
                   batch_size, label_ids, vp_input_ids, vp_input_mask, adv_inputs,
                   sampler_order, notGatherVars>>

\* line 503: the confidence column.
TrainConfidence ==
    /\ sel_pc = "train_confidence"
    /\ max_prob' = Softmax100Long(max_prob)
    /\ sel_pc' = "train_gather"
    /\ UNCHANGED <<all_vp_input_ids, all_vp_input_mask, all_label, batch_start,
                   batch_size, label_ids, vp_input_ids, vp_input_mask, logits_pred,
                   predicted_vps, adv_inputs, sampler_order, notGatherVars>>

\* lines 505-510: the VP rows of the predicted choice, the confidence in front
\* of the ids and 0 * max_prob + 1 in front of the mask.
TrainGather ==
    /\ sel_pc = "train_gather"
    /\ LET n == Len(vp_input_ids[1][1])
           index == ViewRepeatView(predicted_vps, n)
           ones == [i \in 1..Len(max_prob) |-> <<0 * max_prob[i][1] + 1>>]
       IN  /\ vp_input_ids' =
                CatDim1(max_prob, ViewRows(GatherDim1(vp_input_ids, index)))
           /\ vp_input_mask' =
                CatDim1(ones, ViewRows(GatherDim1(vp_input_mask, index)))
    /\ sel_pc' = "train_adversary"
    /\ UNCHANGED <<all_vp_input_ids, all_vp_input_mask, all_label, batch_start,
                   batch_size, label_ids, logits_pred, predicted_vps, adv_inputs,
                   gatherVars, notGatherVars>>

\* lines 511-556: the adversary is called on the rows; the step runs to its end.
TrainAdversary ==
    /\ sel_pc = "train_adversary"
    /\ adv_inputs' = [i \in 1..Len(vp_input_ids) |->
                        [ids |-> vp_input_ids[i], mask |-> vp_input_mask[i]]]
    /\ batch_start' = batch_start + Len(label_ids)
    /\ sel_pc' = "train_load"
    /\ UNCHANGED <<all_vp_input_ids, all_vp_input_mask, all_label, batch_size,
                   label_ids, vp_input_ids, vp_input_mask, logits_pred,
                   predicted_vps, gatherVars, notGatherVars>>

NextTrainGather ==
    \/ TrainLoadBatch
    \/ TrainPredict
    \/ TrainConfidence
    \/ TrainGather
    \/ TrainAdversary

SpecTrainGather == InitTrainGather /\ [][NextTrainGather]_vars

(* ------------------------------- accuracy ------------------------------- *)
\* The scores a row of out may hold, in tenths (1 is 0.1, 9 is 0.9).
Scores == {1, 2, 8, 9}

\* The rows accuracy is run on: two scores each.
ScoreRows == Scores \X Scores

InitAccuracy ==
    /\ \E n \in 0..MaxAccRows :
          /\ out \in [1..n -> ScoreRows]
          /\ labels \in [1..n -> 0..1]
    /\ outputs = <<>>
    /\ acc_result = None
    /\ acc_pc = "argmax"
    /\ max_seq_length = MaxSeqLen
    /\ features = <<>>
    /\ IdleEncoder
    /\ IdleReader
    /\ IdleMain
    /\ IdleSel
    /\ IdleGather

\* line 257: outputs = torch.argmax(out, dim=1).
AccuracyArgMax ==
    /\ acc_pc = "argmax"
    /\ outputs' = ArgMaxDim1(out)
    /\ acc_pc' = "sum"
    /\ UNCHANGED <<out, labels, acc_result, notAccVars>>

\* line 258: return torch.sum(outputs == labels).
AccuracyReturn ==
    /\ acc_pc = "sum"
    /\ acc_result' = Some(Accuracy(out, labels))
    /\ acc_pc' = "returned"
    /\ UNCHANGED <<out, labels, outputs, notAccVars>>

NextAccuracy ==
    \/ AccuracyArgMax
    \/ AccuracyReturn

SpecAccuracy == InitAccuracy /\ [][NextAccuracy]_vars

(* ======================================================================= *)
(* Properties of the feature encoder (checked under SpecEncoder)           *)
(* ======================================================================= *)

\* The shape the assertions of lines 206-210 demand of one choice.
ChoiceShapeOk(c, msl) ==
    /\ Len(c.input_ids) = msl
    /\ Len(c.input_mask) = msl
    /\ Len(c.segment_ids) = msl
    /\ Len(c.vp_input_ids) = msl \div 2
    /\ Len(c.vp_input_mask) = msl \div 2

\* C1: for every example, every token length and every max_seq_length (here
\* already for every max_seq_length >= 3, where the truncation budget is not
\* negative) convert_examples_to_features raises nothing, and once it has
\* completed the feature holds exactly 4 choices, each of max_seq_length ids,
\* mask and segment entries and max_seq_length // 2 VP ids and VP mask entries.
C1_EncoderAlwaysCompletes ==
    max_seq_length >= 3 =>
        /\ enc_pc \notin {"AssertionError", "IndexError"}
        /\ enc_pc = "done" =>
              /\ Len(features) = 1
              /\ Len(features[1].choices_features) = 4
              /\ \A i \in 1..4 :
                    ChoiceShapeOk(features[1].choices_features[i], max_seq_length)

\* The pair as it was handed to the running call of _truncate_seq_pair.
OrigA == context_tokens

OrigB == start_ending_tokens \o vp_token_

Budget == max_seq_length - 3

\* C2: when _truncate_seq_pair has returned, both lists are prefixes of the
\* lists it was given; if their combined length exceeded max_seq_length - 3 the
\* combined length is now exactly that budget, otherwise both are unchanged.
C2_TruncationProperty ==
    enc_pc = "assemble" =>
        /\ IsPrefix(context_tokens_choice, OrigA)
        /\ IsPrefix(ending_tokens, OrigB)
        /\ IF Len(OrigA) + Len(OrigB) > Budget
           THEN Len(context_tokens_choice) + Len(ending_tokens) = Budget
           ELSE context_tokens_choice = OrigA /\ ending_tokens = OrigB
        /\ LET r == TruncateSeqPair(OrigA, OrigB, Budget)
           IN  ~r.raised /\ r.a = context_tokens_choice /\ r.b = ending_tokens

\* A call has returned after shortening both lists.
C2_BothTruncated ==
    /\ enc_pc = "assemble"
    /\ Len(OrigA) + Len(OrigB) > Budget
    /\ Len(context_tokens_choice) < Len(OrigA)
    /\ Len(ending_tokens) < Len(OrigB)
    /\ ending_tokens # <<>>

\* C3: every single-token removal of _truncate_seq_pair drops the last token of
\* the strictly longer list; when the lengths are equal it drops the last token
\* of the ending span and leaves the context alone.
C3_RemovesFromLonger ==
    [][(enc_pc = "truncate" /\ enc_pc' = "truncate") =>
          \/ /\ Len(context_tokens_choice) > Len(ending_tokens)
             /\ context_tokens_choice' = Front(context_tokens_choice)
             /\ ending_tokens' = ending_tokens
          \/ /\ Len(context_tokens_choice) <= Len(ending_tokens)
             /\ ending_tokens' = Front(ending_tokens)
             /\ context_tokens_choice' = context_tokens_choice]_vars

\* The first removal of a call met a tie and took the ending span's last token.
C3_TieRemovalSeen ==
    /\ enc_pc = "truncate"
    /\ n_pops = 1
    /\ Len(OrigA) = Len(OrigB)
    /\ Len(OrigA) > 0
    /\ context_tokens_choice = OrigA
    /\ ending_tokens = Front(OrigB)

\* C4: in every encoded choice, with n real tokens in the full sequence and m
\* in the VP sequence, input_mask is 1 below n and 0 from n on, input_ids and
\* segment_ids are 0 from n on, vp_input_mask is 1 below m and 0 from m on and
\* vp_input_ids is 0 from m on.
C4_PaddingIsZero ==
    \A k \in 1..Len(choices_features) :
        LET c == choices_features[k]
            n == Len(c.tokens)
            m == Len(c.vp_tokens)
        IN  /\ \A p \in 1..Len(c.input_mask) :
                  c.input_mask[p] = IF p <= n THEN 1 ELSE 0
            /\ \A p \in 1..Len(c.input_ids) : p > n => c.input_ids[p] = 0
            /\ \A p \in 1..Len(c.segment_ids) : p > n => c.segment_ids[p] = 0
            /\ \A p \in 1..Len(c.vp_input_mask) :
                  c.vp_input_mask[p] = IF p <= m THEN 1 ELSE 0
            /\ \A p \in 1..Len(c.vp_input_ids) : p > m => c.vp_input_ids[p] = 0

\* An encoded choice whose full sequence and VP sequence are both padded.
C4_PaddedChoiceSeen ==
    \E k \in 1..Len(choices_features) :
        /\ Len(choices_features[k].tokens) < Len(choices_features[k].input_ids)
        /\ Len(choices_features[k].vp_tokens)
             < Len(choices_features[k].vp_input_ids)

\* The tuple of choice k (1-based) of the example, encoded from the full context
\* and the full shared prefix.
FreshChoice(k) ==
    LET vp == Tokenize(example.endings[k])
        t == TruncateSeqPair(Tokenize(example.context_sentence),
                             Tokenize(example.start_ending) \o vp,
                             max_seq_length - 3)
    IN  BuildChoice(t.a, t.b, vp, max_seq_length)

\* C12: the encoder never changes the example; once tokenized, the context
\* tokens and the shared-prefix tokens stay the full token lists whatever the
\* truncation does to the per-choice lists; every choice appended is the one
\* obtained from the full context and prefix; and the feature of a completed
\* encoding is the feature a second encoding of the same example yields.
C12_EncodingRepeatable ==
    /\ [](/\ enc_pc \notin {"idle", "start"} =>
                /\ context_tokens = Tokenize(example.context_sentence)
                /\ start_ending_tokens = Tokenize(example.start_ending)
          /\ \A k \in 1..Len(choices_features) : choices_features[k] = FreshChoice(k)
          /\ enc_pc = "done" =>
                features = ConvertExamplesToFeatures(<<example>>, max_seq_length,
                                                     1, <<>>).features)
    /\ [][example' = example /\ max_seq_length' = max_seq_length]_vars

\* The first choice was encoded with a shortened context, and the second
\* choice starts again from the full context.
C12_LaterChoiceFromFullContext ==
    /\ enc_pc = "assemble"
    /\ ending_index = 1
    /\ Len(context_tokens) >= 2
    /\ SubSeq(choices_features[1].tokens, 2, Len(context_tokens) + 1) # context_tokens
    /\ context_tokens_choice = context_tokens

\* max(0, len(a) + len(b) - max_length) for the running call.
RemovalsNeeded ==
    IF Len(OrigA) + Len(OrigB) > Budget
    THEN Len(OrigA) + Len(OrigB) - Budget
    ELSE 0

\* C18: for every pair of token lists and every max_length the encoder passes
\* (max_seq_length - 3, whatever max_seq_length is configured)
\* _truncate_seq_pair never removes from an empty list, has made no more than
\* max(0, len(a) + len(b) - max_length) removals while it runs, and exactly
\* that many when it returns.
C18_TruncationTerminates ==
    /\ enc_pc # "IndexError"
    /\ enc_pc = "truncate" => n_pops <= RemovalsNeeded
    /\ enc_pc = "assemble" => n_pops = RemovalsNeeded

(* ======================================================================= *)
(* Properties of the example reader (checked under SpecReader)             *)
(* ======================================================================= *)

HasHeader == lines # <<>>

HeaderHasLabel == HasHeader /\ \E k \in 1..Len(lines[1]) : lines[1][k] = "label"

ReadFinished == read_pc \notin {"start", "idle"}

PipelineFinished == read_pc \notin {"start", "idle", "read"}

\* C6: for a training-mode file of a header (with its label column) and n data
\* rows, reading and then encoding ends with exactly n features, in the order
\* of the rows, each of 4 choices, with the label the integer of column 11 and
\* the protected attribute the integer of column 12 of its row.
C6_FeaturesFollowRows ==
    (PipelineFinished /\ is_training /\ HeaderHasLabel) =>
        /\ read_pc = "converted"
        /\ Len(features) = Len(lines) - 1
        /\ \A i \in 1..Len(features) :
              /\ features[i].example_id = Col(lines[i + 1], 2)
              /\ Len(features[i].choices_features) = 4
              /\ features[i].label = Some(ParseInt(Col(lines[i + 1], 11)))
              /\ features[i].protected_attr = Some(ParseInt(Col(lines[i + 1], 12)))

\* C7: with is_training = True and a header row without a label column the
\* reader raises ValueError and returns no examples; with is_training = False
\* it never raises that error and returns one example per data row, each
\* without label and without protected attribute.
C7_LabelColumnRequired ==
    /\ (ReadFinished /\ is_training /\ HasHeader /\ ~HeaderHasLabel) =>
          (read_pc = "ValueError" /\ examples = <<>>)
    /\ (ReadFinished /\ ~is_training) =>
          /\ read_pc # "ValueError"
          /\ HasHeader => Len(examples) = Len(lines) - 1
          /\ \A i \in 1..Len(examples) :
                examples[i].label = None /\ examples[i].protected_attr = None

\* A training-mode read of a file with data rows and no label column has raised.
C7_ValueErrorSeen ==
    /\ read_pc = "ValueError"
    /\ is_training
    /\ Len(lines) > 1
    /\ ~HeaderHasLabel

(* ======================================================================= *)
(* Properties of main() (checked under Spec)                               *)
(* ======================================================================= *)

\* No forward pass, no backward pass, no optimizer update, no output file.
NothingDone == calls = NoCalls /\ files = {}

TrainLabelMissing ==
    train_file # None /\ \A k \in 1..Len(train_file[1][1]) : train_file[1][1][k] # "label"

ValLabelMissing ==
    val_file # None /\ \A k \in 1..Len(val_file[1][1]) : val_file[1][1][k] # "label"

\* C8 as stated: whichever configuration error aborts the run (an invalid
\* gradient_accumulation_steps, no mode selected, train.csv or val.csv without
\* a label column), no forward pass, no optimizer update and no output file
\* write has happened before it (here already for runs of at least one epoch).
C8_ConfigErrorsBeforeAnyWork ==
    num_train_epochs >= 1 =>
        (error \in {"grad_acc", "no_mode", "train_label", "val_label"} => NothingDone)

\* C8 amended: the three errors found before training (an invalid
\* gradient_accumulation_steps, no mode selected, train.csv without a label
\* column) abort the run before any forward pass, optimizer update or output
\* file write; val.csv without a label column aborts it before any evaluation
\* forward pass and before eval_results.txt is written, and before any work at
\* all only when training was not asked for.  Each of the four does abort.
C8_ConfigErrorsAbort ==
    /\ error \in {"grad_acc", "no_mode", "train_label"} => NothingDone
    /\ error = "val_label" =>
          /\ calls.eval_fwd_pred = 0 /\ calls.eval_fwd_adv = 0
          /\ "eval_results.txt" \notin files
          /\ ~do_train => NothingDone
    /\ (pc # "start" /\ gradient_accumulation_steps < 1) => error = "grad_acc"
    /\ (pc # "start" /\ gradient_accumulation_steps >= 1 /\ ~do_train /\ ~do_eval)
          => error = "no_mode"
    /\ TrainLabelMissing => error = "train_label"
    /\ ValLabelMissing => error = "val_label"

\* A run that trained, wrote its outputs and then met val.csv without labels.
C8_LateValErrorSeen ==
    /\ error = "val_label"
    /\ do_train
    /\ calls.step_pred > 0
    /\ "train_results.csv" \in files

\* The positions of main() inside a training step.
MidStep == {"gather", "fwd_adv", "record", "bwd_comb", "step_pred", "bwd_adv",
            "step_adv"}

\* C9: between training steps training_history holds one (loss_pred, loss_adv)
\* pair per completed step, in step order, so its length is global_step; no
\* step of the program changes or removes an earlier entry (epoch boundaries
\* included); and train_results.csv is written only after the last step of the
\* last epoch, with the whole history.
C9_HistoryAppendOnly ==
    /\ [](/\ pc \notin MidStep => Len(training_history) = global_step
          /\ history_file # None =>
                /\ epoch = num_train_epochs
                /\ global_step = num_train_epochs * NumBatches
                /\ history_file = Some(training_history))
    /\ [][/\ IsPrefix(training_history, training_history')
          /\ global_step' = global_step + 1 =>
                /\ Len(training_history') = global_step'
                /\ training_history'[global_step'] = <<loss_pred, loss_adv>>]_vars

\* The history of two epochs has been written.
C9_HistoryWritten ==
    /\ history_file # None
    /\ num_train_epochs = 2
    /\ Len(training_history) >= 4
    /\ training_history[1] # training_history[2]

\* C10: the phases of every training step happen in one fixed order without
\* interleaving: predictor forward, gather, adversary forward, combined-loss
\* backward, predictor optimizer step, adversary-loss backward, adversary
\* optimizer step; the predictor's update of a step precedes the adversary's,
\* and between steps each optimizer has stepped exactly once per step.
C10_PhaseOrder ==
    /\ calls.fwd_pred >= calls.gather
    /\ calls.gather >= calls.fwd_adv
    /\ calls.fwd_adv >= calls.bwd_comb
    /\ calls.bwd_comb >= calls.step_pred
    /\ calls.step_pred >= calls.bwd_adv
    /\ calls.bwd_adv >= calls.step_adv
    /\ calls.step_adv >= calls.fwd_pred - 1
    /\ pc \notin MidStep =>
          /\ calls.fwd_pred = global_step
          /\ calls.step_pred = global_step
          /\ calls.step_adv = global_step

\* Two whole steps done, the third one under way.
C10_ThirdStepRunning ==
    /\ pc = "bwd_adv"
    /\ global_step = 2
    /\ calls.step_pred = 3
    /\ calls.step_adv = 2

\* C13: in every training step the combined-loss phase (the backward pass of
\* L = L_p - alpha * L_a, then the predictor optimizer's step) leaves the
\* adversary's parameters as they were and does update the predictor's; the
\* adversary's accumulated gradients are zero when the phase begins and zero
\* again once it has ended, before the adversary-loss backward pass starts.
C13_CombinedPhaseFrame ==
    /\ [](pc \in {"bwd_comb", "bwd_adv"} => grad_adv = 0)
    /\ [][(pc \in {"bwd_comb", "step_pred"} => param_adv' = param_adv)
          /\ (pc = "step_pred" => param_pred' # param_pred)]_vars

\* The combined-loss phase of a second step has ended: both models have been
\* updated before, the adversary's gradients are zero, its parameters are the
\* ones the first step left.
C13_SecondCombinedPhaseDone ==
    /\ pc = "bwd_adv"
    /\ calls.step_pred = 2
    /\ calls.step_adv = 1
    /\ param_adv = 0 - training_history[1][2]
    /\ param_pred # 0
    /\ grad_adv = 0

\* C14: in every training step the adversary's optimizer steps on the gradient
\* of L_a alone (nothing of the combined loss is left in the adversary's
\* gradients), the adversary phase leaves the predictor's parameters as they
\* were, and between steps the accumulated gradients of both models are zero.
C14_AdversaryPhaseFrame ==
    /\ [](/\ pc = "step_adv" => grad_adv = GradOf(loss_adv) /\ grad_pred = 0
          /\ pc = "batch" => grad_pred = 0 /\ grad_adv = 0)
    /\ [][(pc \in {"bwd_adv", "step_adv"} => param_pred' = param_pred)
          /\ (pc = "step_adv" => param_adv' = param_adv - GradOf(loss_adv))]_vars

\* Two whole steps done: the adversary holds the sum of its two updates.
C14_TwoAdversaryUpdates ==
    /\ pc = "batch"
    /\ calls.step_adv = 2
    /\ param_adv = 0 - (training_history[1][2] + training_history[2][2])
    /\ param_adv # 0
    /\ grad_pred = 0
    /\ grad_adv = 0

\* C16: with gradient_accumulation_steps = k an optimizer update is made only
\* once the gradients of k mini-batches have been summed: each optimizer has
\* stepped, and global_step has advanced, at most once per k backward passes.
C16_UpdateEveryKBatches ==
    gradient_accumulation_steps >= 1 =>
        /\ calls.step_pred * gradient_accumulation_steps <= calls.bwd_comb
        /\ calls.step_adv * gradient_accumulation_steps <= calls.bwd_adv
        /\ global_step * gradient_accumulation_steps <= calls.bwd_adv

\* The sum of column k of a sequence of tuples.
RECURSIVE SumCol(_, _)
SumCol(rows, k) == IF rows = <<>> THEN 0 ELSE Head(rows)[k] + SumCol(Tail(rows), k)

\* The examples of the evaluation split whose output row has its (first)
\* maximum at the example's value of the field.
CorrectExamples(model, field) ==
    { i \in 1..n_eval_examples :
        LET row == eval_outputs[i][model]
            c == EvalLabels(field)[i]
        IN  /\ IsArgMax(row, c)
            /\ \A k \in 0..(c - 1) : ~IsArgMax(row, k) }

\* What the report holds once it is written.
ReportIsRight ==
    result # None =>
        LET r == result[1].eval
            n == Len(val_file[1]) - 1
        IN  /\ nb_eval_examples = n
            /\ nb_eval_steps = (n + eval_batch_size - 1) \div eval_batch_size
            /\ Len(eval_losses) = nb_eval_steps
            /\ r.eval_accuracy_pred = <<Cardinality(CorrectExamples("pred", "label")), n>>
            /\ r.eval_accuracy_adv =
                  <<Cardinality(CorrectExamples("adv", "protected_attr")), n>>
            /\ r.eval_accuracy_pred[1] \in 0..n /\ r.eval_accuracy_adv[1] \in 0..n
            /\ n > 0
            /\ r.eval_loss_pred = <<SumCol(eval_losses, 1), nb_eval_steps>>
            /\ r.eval_loss_adv = <<SumCol(eval_losses, 2), nb_eval_steps>>

\* C17: for every held-out split the reader accepts, however it divides into
\* batches, the evaluator counts each example once, reports both accuracies as
\* correct count over example count (a value in 0..1) and both losses as the
\* sum of the batch losses over the number of batches, and writes the report
\* without error (here already for the runs that do not train or train for at
\* least one epoch).
C17_EvalReport ==
    (~do_train \/ num_train_epochs >= 1) =>
        /\ ReportIsRight
        /\ error \notin {"ZeroDivisionError", "NameError"}
        /\ (pc = "done" /\ do_eval) => result # None

(* ======================================================================= *)
(* Properties of the evaluation loop (checked under SpecEval)              *)
(* ======================================================================= *)

\* C5: in evaluation, for every example of every batch the id row and the mask
\* row handed to the adversary are the VP rows of one and the same choice, the
\* one torch.argmax picks among the predictor's logits (whatever the gold label
\* is), with nothing prepended: both have max_seq_length // 2 entries.  (Stated
\* where the adversary has just been called on a batch.)
C5_EvalUsesArgmaxRows ==
    sel_pc = "load" => \A i \in 1..Len(adv_inputs) :
        LET c == predicted_vps[i]
            e == batch_start - Len(adv_inputs) + i
        IN  /\ IsArgMax(logits_pred[i], c)
            /\ \A k \in 0..(c - 1) : ~IsArgMax(logits_pred[i], k)
            /\ adv_inputs[i].ids = all_vp_input_ids[e][c + 1]
            /\ adv_inputs[i].mask = all_vp_input_mask[e][c + 1]
            /\ Len(adv_inputs[i].ids) = max_seq_length \div 2
            /\ Len(adv_inputs[i].mask) = max_seq_length \div 2

\* The adversary has been fed the rows of a predicted choice that is not the
\* gold one, in a last batch smaller than the batch size.
C5_NonGoldChoiceFed ==
    /\ sel_pc = "load"
    /\ batch_start = 3
    /\ Len(adv_inputs) = 1
    /\ predicted_vps[1] # label_ids[1]
    /\ predicted_vps[1] = 2

(* ======================================================================= *)
(* Properties of accuracy (checked under SpecAccuracy)                     *)
(* ======================================================================= *)

\* Row i of out has its (first) maximal entry at the index labels[i].
RowIsCorrect(i) ==
    /\ IsArgMax(out[i], labels[i])
    /\ \A k \in 0..(labels[i] - 1) : ~IsArgMax(out[i], k)

\* C11: accuracy(out, labels) returns the number of rows whose maximal entry
\* sits at the row's label, a count in 0..rows and not a fraction; for
\* out = [[0.1, 0.9], [0.8, 0.2]] and labels = [1, 0] it returns 2.
C11_AccuracyCountsCorrectRows ==
    acc_pc = "returned" =>
        /\ acc_result = Some(Cardinality({i \in 1..Len(out) : RowIsCorrect(i)}))
        /\ acc_result[1] \in 0..Len(out)
        /\ (out = <<<<1, 9>>, <<8, 2>>>> /\ labels = <<1, 0>>) => acc_result = Some(2)

\* accuracy has returned 2 for the two rows of the example.
C11_BothRowsCorrect ==
    /\ acc_pc = "returned"
    /\ out = <<<<1, 9>>, <<8, 2>>>>
    /\ labels = <<1, 0>>
    /\ outputs = <<1, 0>>
    /\ acc_result = Some(2)

(* ======================================================================= *)
(* Properties of a training batch's gather (checked under SpecTrainGather) *)
(* ======================================================================= *)

\* C15: for every example of every training batch the adversary is called
\* with the VP id row and the VP mask row of the choice that has the
\* predictor's maximal logit (whatever the gold label is), each behind exactly
\* one extra leading position: an integer confidence in 0..100 in the id row,
\* the value 1 in the mask row; both rows have max_seq_length // 2 + 1 entries.
\* (Stated where the adversary has just been called on a batch.)
C15_TrainAdversaryInput ==
    sel_pc = "train_load" => \A i \in 1..Len(adv_inputs) :
        LET c == predicted_vps[i]
            e == sampler_order[batch_start - Len(adv_inputs) + i]
        IN  /\ IsArgMax(logits_pred[i], c)
            /\ Tail(adv_inputs[i].ids) = all_vp_input_ids[e][c + 1]
            /\ Tail(adv_inputs[i].mask) = all_vp_input_mask[e][c + 1]
            /\ Head(adv_inputs[i].ids) \in 0..100
            /\ Head(adv_inputs[i].mask) = 1
            /\ Len(adv_inputs[i].ids) = max_seq_length \div 2 + 1
            /\ Len(adv_inputs[i].mask) = max_seq_length \div 2 + 1

\* A batch of two out of sampler order 2, 1, ...: the adversary got the rows of
\* the last choice for one example and of the second choice for the other, none
\* the gold choice, with confidences 66 and 33.
C15_TwoConfidencesFed ==
    /\ sel_pc = "train_load"
    /\ Len(adv_inputs) = 2
    /\ sampler_order[1] = 2
    /\ predicted_vps = <<3, 1>>
    /\ label_ids = <<0, 0>>
    /\ Head(adv_inputs[1].ids) = 66
    /\ Head(adv_inputs[2].ids) = 33
    /\ adv_inputs[1].mask # adv_inputs[2].mask

====
